---- MODULE Spec2Model ----
(***************************************************************************)
(* Model of the Framework Laptop ACPI driver (framework_laptop.c):         *)
(* the charge-limit attribute, the keyboard backlight LED callbacks, the   *)
(* battery hook and the ACPI add/remove lifecycle, with the embedded       *)
(* controller (EC) and the kernel services the driver calls as the         *)
(* environment.                                                            *)
(***************************************************************************)
EXTENDS Integers, Sequences, FiniteSets, TLC

(* ---------------------------------------------------------------------- *)
(* Bounds of the model                                                      *)
(* ---------------------------------------------------------------------- *)

\* number of framework_add calls explored in one behaviour
MaxAttach == 2

\* largest in-range percentage whose decimal string is written to the attribute
MaxPct == 1

(* ---------------------------------------------------------------------- *)
(* Program constants                                                        *)
(* ---------------------------------------------------------------------- *)

EIO == 5
ENOMEM == 12
EEXIST == 17
ENODEV == 19
EINVAL == 22
ERANGE == 34
EPROTO == 71

EC_CMD_CHARGE_LIMIT_CONTROL == 15875
EC_CMD_PWM_GET_KEYBOARD_BACKLIGHT == 34
EC_CMD_PWM_SET_KEYBOARD_BACKLIGHT == 35

CHG_LIMIT_DISABLE == 1
CHG_LIMIT_SET_LIMIT == 2
CHG_LIMIT_GET_LIMIT == 8
CHG_LIMIT_OVERRIDE == 128

\* the threshold battery_set_threshold compares the written value with
LimitMax == 100

\* characters of a written buffer that are not decimal digits 0..9
NL == 10
PLUS == 11
NONDIGIT == 12

\* a 32-bit word is kept as <<high half, low half>>, each below Half
Half == 65536
SignHalf == 32768

Batteries == {"BAT0", "BAT1"}

(* ---------------------------------------------------------------------- *)
(* Integer conversions                                                      *)
(* ---------------------------------------------------------------------- *)

\* (uint8_t)v for a C int v
U8(v) == ((v % 256) + 256) % 256

\* the unsigned 32-bit word kstrtouint stored, read back through `int value'
\* (two's complement): words with the top bit set read as negative
AsInt(w) ==
  IF w[1] < SignHalf THEN w[1] * Half + w[2]
  ELSE (w[1] - Half) * Half + w[2]

\* bit test on a mode byte
HasBit(m, b) == (m \div b) % 2 = 1

(* kstrtouint(buf, 10, &value): optional '+', at least one digit, optional  *)
(* single trailing newline, nothing else; -ERANGE above 2^32-1.            *)
(* The accumulator is <<overflowed, high, low>>.                            *)
RECURSIVE ParseDigits(_, _, _)
ParseDigits(s, i, acc) ==
  IF i > Len(s) \/ s[i] > 9 THEN <<i, acc>>
  ELSE LET lo2 == acc[3] * 10 + s[i]
           hi2 == acc[2] * 10 + (lo2 \div Half)
       IN  IF acc[1] \/ hi2 >= Half
           THEN ParseDigits(s, i + 1, <<TRUE, 0, 0>>)
           ELSE ParseDigits(s, i + 1, <<FALSE, hi2, lo2 % Half>>)

\* result <<errno, word>>: errno 0 on success
kstrtouint(s) ==
  LET start == IF Len(s) >= 1 /\ s[1] = PLUS THEN 2 ELSE 1
      r     == ParseDigits(s, start, <<FALSE, 0, 0>>)
      i     == r[1]
      acc   == r[2]
      j     == IF i <= Len(s) /\ s[i] = NL THEN i + 1 ELSE i
  IN  IF acc[1] THEN <<-ERANGE, <<0, 0>>>>
      ELSE IF i = start THEN <<-EINVAL, <<0, 0>>>>
      ELSE IF j <= Len(s) THEN <<-EINVAL, <<0, 0>>>>
      ELSE <<0, <<acc[2], acc[3]>>>>

\* decimal digits of a non-negative int, as "%d" prints them
RECURSIVE Digits(_)
Digits(n) == IF n < 10 THEN <<n>> ELSE Append(Digits(n \div 10), n % 10)

\* sysfs_emit(buf, "%d\n", v): the text placed in the page
sysfs_emit(v) == Append(Digits(v), NL)

(* ---------------------------------------------------------------------- *)
(* State                                                                    *)
(* ---------------------------------------------------------------------- *)

VARIABLES
  ec_device,   \* the static pointer: "NULL" or "ec"
  ecRefs,      \* references on the EC device taken by bus_find_device_by_name
  drv,         \* "Detached", "Attached", "Unhooked", "Removed"
  attaches,    \* framework_add calls so far
  detaches,    \* completed detaches so far
  ledCount,    \* registered LED class devices
  hookCount,   \* registered battery hooks
  attr,        \* per battery: installed copies of the charge-limit group
  ecMax,       \* EC firmware: stored maximum charge percentage
  ecMin,       \* EC firmware: stored minimum charge percentage
  written,     \* the buffer of the last attribute write that returned success
  last         \* the last call made into the driver and its outcome

vars == <<ec_device, ecRefs, drv, attaches, detaches, ledCount, hookCount,
          attr, ecMax, ecMin, written, last>>

lifecycleVars == <<ec_device, ecRefs, drv, attaches, detaches, ledCount,
                   hookCount, attr>>

\* record of a call: what came in, what went over the wire, what came back
NoCall ==
  [op |-> "none", input |-> <<>>, perr |-> 0, word |-> <<0, 0>>, arg |-> 0,
   ret |-> 0, out |-> <<>>, xfers |-> 0, req |-> <<>>, status |-> 0,
   resp |-> <<>>, env |-> <<>>]

(* ---------------------------------------------------------------------- *)
(* The transfer primitive and the EC behind it                              *)
(* ---------------------------------------------------------------------- *)

\* cros_ec_cmd_xfer_status: a negative errno, or the number of response
\* bytes received, at most msg->insize
XferStatus(insize) == {-EPROTO} \cup (0 .. insize)

\* msg->data holds the request; the bytes received replace its first n bytes
Overlay(data, reply, n) ==
  [i \in 1 .. Len(data) |-> IF i <= n /\ i <= Len(reply) THEN reply[i] ELSE data[i]]

\* EC firmware, charge-limit command: SET_LIMIT stores the two percentages,
\* the response carries the stored ones.  Result <<max, min>> after the command.
EcChargeLimit(params) ==
  IF HasBit(params[1], CHG_LIMIT_SET_LIMIT) THEN <<params[2], params[3]>>
  ELSE <<ecMax, ecMin>>

(* ---------------------------------------------------------------------- *)
(* charge_limit_control                                                     *)
(* ---------------------------------------------------------------------- *)

\* result of one call, given the outcome st of the transfer
\* variant: returns the response's min_percentage instead of max_percentage
charge_limit_control_min(modes, max_percentage, st) ==
  IF ec_device = "NULL"
  THEN [ret |-> -ENODEV, xfers |-> 0, req |-> <<>>, status |-> 0,
        resp |-> <<>>, ec |-> <<ecMax, ecMin>>]
  ELSE LET params == <<U8(modes), max_percentage, 0>>
           stored == EcChargeLimit(params)
           data   == IF st < 0 THEN params ELSE Overlay(params, stored, st)
       IN  [ret    |-> IF st < 0 THEN -EIO ELSE data[2],
            xfers  |-> 1,
            req    |-> <<EC_CMD_CHARGE_LIMIT_CONTROL>> \o params,
            status |-> st,
            resp   |-> IF st < 0 THEN <<>> ELSE SubSeq(stored, 1, st),
            ec     |-> IF st < 0 THEN <<ecMax, ecMin>> ELSE stored]

\* variant: a failed transfer is sent a second time
charge_limit_control_retry(modes, max_percentage, st) ==
  IF ec_device = "NULL"
  THEN [ret |-> -ENODEV, xfers |-> 0, req |-> <<>>, status |-> 0,
        resp |-> <<>>, ec |-> <<ecMax, ecMin>>]
  ELSE LET params == <<U8(modes), max_percentage, 0>>
           stored == EcChargeLimit(params)
           data   == IF st < 0 THEN params ELSE Overlay(params, stored, st)
       IN  [ret    |-> IF st < 0 THEN -EIO ELSE data[1],
            xfers  |-> IF st < 0 THEN 2 ELSE 1,
            req    |-> <<EC_CMD_CHARGE_LIMIT_CONTROL>> \o params,
            status |-> st,
            resp   |-> IF st < 0 THEN <<>> ELSE SubSeq(stored, 1, st),
            ec     |-> IF st < 0 THEN <<ecMax, ecMin>> ELSE stored]

charge_limit_control(modes, max_percentage, st) ==
  IF ec_device = "NULL"
  THEN [ret |-> -ENODEV, xfers |-> 0, req |-> <<>>, status |-> 0,
        resp |-> <<>>, ec |-> <<ecMax, ecMin>>]
  ELSE LET params == <<U8(modes), max_percentage, 0>>
           stored == EcChargeLimit(params)
           data   == IF st < 0 THEN params ELSE Overlay(params, stored, st)
       IN  [ret    |-> IF st < 0 THEN -EIO ELSE data[1],
            xfers  |-> 1,
            req    |-> <<EC_CMD_CHARGE_LIMIT_CONTROL>> \o params,
            status |-> st,
            resp   |-> IF st < 0 THEN <<>> ELSE SubSeq(stored, 1, st),
            ec     |-> IF st < 0 THEN <<ecMax, ecMin>> ELSE stored]

(* ---------------------------------------------------------------------- *)
(* The charge-limit attribute                                               *)
(* ---------------------------------------------------------------------- *)

battery_get_threshold(st) ==
  LET r == charge_limit_control(CHG_LIMIT_GET_LIMIT, 0, st)
      text == IF r.ret < 0 THEN <<>> ELSE sysfs_emit(r.ret)
  IN  /\ last' = [NoCall EXCEPT !.op = "battery_get_threshold",
                    !.ret = IF r.ret < 0 THEN r.ret ELSE Len(text),
                    !.out = text, !.xfers = r.xfers, !.req = r.req,
                    !.status = r.status, !.resp = r.resp]
      /\ ecMax' = r.ec[1]
      /\ ecMin' = r.ec[2]
      /\ UNCHANGED <<written, lifecycleVars>>

battery_set_threshold(buf, st) ==
  LET p     == kstrtouint(buf)
      value == AsInt(p[2])
      rec   == [NoCall EXCEPT !.op = "battery_set_threshold", !.input = buf,
                  !.perr = p[1], !.word = p[2]]
  IN  IF p[1] # 0
      THEN /\ last' = [rec EXCEPT !.ret = p[1]]
           /\ UNCHANGED <<ecMax, ecMin, written, lifecycleVars>>
      ELSE IF value > LimitMax
      THEN /\ last' = [rec EXCEPT !.ret = -EINVAL]
           /\ UNCHANGED <<ecMax, ecMin, written, lifecycleVars>>
      ELSE LET r == charge_limit_control(CHG_LIMIT_SET_LIMIT, U8(value), st)
           IN  /\ last' = [rec EXCEPT !.ret = IF r.ret < 0 THEN r.ret ELSE Len(buf),
                             !.xfers = r.xfers, !.req = r.req,
                             !.status = r.status, !.resp = r.resp]
               /\ ecMax' = r.ec[1]
               /\ ecMin' = r.ec[2]
               /\ written' = IF r.ret < 0 THEN written ELSE buf
               /\ UNCHANGED lifecycleVars

(* ---------------------------------------------------------------------- *)
(* Keyboard backlight LED callbacks                                         *)
(* ---------------------------------------------------------------------- *)

\* reply is the EC's <<enabled, percent>>, st the outcome of the transfer
\* variant: returns the percent without looking at enabled
kb_led_get_any(reply, st) ==
  /\ IF ec_device = "NULL"
     THEN last' = [NoCall EXCEPT !.op = "kb_led_get", !.ret = 0]
     ELSE LET data == IF st < 0 THEN <<0, 0>> ELSE Overlay(<<0, 0>>, reply, st)
          IN  last' = [NoCall EXCEPT !.op = "kb_led_get",
                         !.ret = IF st < 0 THEN 0
                                 ELSE data[2],
                         !.xfers = 1,
                         !.req = <<EC_CMD_PWM_GET_KEYBOARD_BACKLIGHT>>,
                         !.status = st,
                         !.resp = IF st < 0 THEN <<>> ELSE SubSeq(reply, 1, st)]
  /\ UNCHANGED <<ecMax, ecMin, written, lifecycleVars>>

\* variant: reports a failed transfer as -EIO
kb_led_get_err(reply, st) ==
  /\ IF ec_device = "NULL"
     THEN last' = [NoCall EXCEPT !.op = "kb_led_get", !.ret = 0]
     ELSE LET data == IF st < 0 THEN <<0, 0>> ELSE Overlay(<<0, 0>>, reply, st)
          IN  last' = [NoCall EXCEPT !.op = "kb_led_get",
                         !.ret = IF st < 0 THEN -EIO
                                 ELSE IF data[1] # 0 THEN data[2] ELSE 0,
                         !.xfers = 1,
                         !.req = <<EC_CMD_PWM_GET_KEYBOARD_BACKLIGHT>>,
                         !.status = st,
                         !.resp = IF st < 0 THEN <<>> ELSE SubSeq(reply, 1, st)]
  /\ UNCHANGED <<ecMax, ecMin, written, lifecycleVars>>

kb_led_get(reply, st) ==
  /\ IF ec_device = "NULL"
     THEN last' = [NoCall EXCEPT !.op = "kb_led_get", !.ret = 0]
     ELSE LET data == IF st < 0 THEN <<0, 0>> ELSE Overlay(<<0, 0>>, reply, st)
          IN  last' = [NoCall EXCEPT !.op = "kb_led_get",
                         !.ret = IF st < 0 THEN 0
                                 ELSE IF data[1] # 0 THEN data[2] ELSE 0,
                         !.xfers = 1,
                         !.req = <<EC_CMD_PWM_GET_KEYBOARD_BACKLIGHT>>,
                         !.status = st,
                         !.resp = IF st < 0 THEN <<>> ELSE SubSeq(reply, 1, st)]
  /\ UNCHANGED <<ecMax, ecMin, written, lifecycleVars>>

\* variant: ignores the status of the transfer
kb_led_set_quiet(value, st) ==
  /\ IF ec_device = "NULL"
     THEN last' = [NoCall EXCEPT !.op = "kb_led_set", !.arg = value, !.ret = -EIO]
     ELSE last' = [NoCall EXCEPT !.op = "kb_led_set", !.arg = value,
                     !.ret = 0,
                     !.xfers = 1,
                     !.req = <<EC_CMD_PWM_SET_KEYBOARD_BACKLIGHT, U8(value)>>,
                     !.status = st]
  /\ UNCHANGED <<ecMax, ecMin, written, lifecycleVars>>

kb_led_set(value, st) ==
  /\ IF ec_device = "NULL"
     THEN last' = [NoCall EXCEPT !.op = "kb_led_set", !.arg = value, !.ret = -EIO]
     ELSE last' = [NoCall EXCEPT !.op = "kb_led_set", !.arg = value,
                     !.ret = IF st < 0 THEN -EIO ELSE 0,
                     !.xfers = 1,
                     !.req = <<EC_CMD_PWM_SET_KEYBOARD_BACKLIGHT, U8(value)>>,
                     !.status = st]
  /\ UNCHANGED <<ecMax, ecMin, written, lifecycleVars>>

(* ---------------------------------------------------------------------- *)
(* Battery hook                                                             *)
(* ---------------------------------------------------------------------- *)

\* device_add_groups on battery b: <<errno, installed copies afterwards>>.
\* sysfs refuses a file name that already exists and then removes the
\* group's files by name; ok = FALSE is an allocation failure.
device_add_groups(b, ok) ==
  IF attr[b] > 0 THEN <<-EEXIST, 0>>
  ELSE IF ~ok THEN <<-ENOMEM, 0>>
  ELSE <<0, 1>>

\* variant: no comparison of the battery name
framework_laptop_battery_add_any(b, ok) ==
  /\ IF FALSE
     THEN /\ last' = [NoCall EXCEPT !.op = "framework_laptop_battery_add",
                        !.env = <<b>>, !.ret = -ENODEV]
          /\ attr' = attr
     ELSE LET g == device_add_groups(b, ok)
          IN  /\ last' = [NoCall EXCEPT !.op = "framework_laptop_battery_add",
                            !.env = <<b>>,
                            !.ret = IF g[1] # 0 THEN -ENODEV ELSE 0]
              /\ attr' = [attr EXCEPT ![b] = g[2]]
  /\ UNCHANGED <<ec_device, ecRefs, drv, attaches, detaches, ledCount,
                 hookCount, ecMax, ecMin, written>>

framework_laptop_battery_add(b, ok) ==
  /\ IF b # "BAT1"
     THEN /\ last' = [NoCall EXCEPT !.op = "framework_laptop_battery_add",
                        !.env = <<b>>, !.ret = -ENODEV]
          /\ attr' = attr
     ELSE LET g == device_add_groups(b, ok)
          IN  /\ last' = [NoCall EXCEPT !.op = "framework_laptop_battery_add",
                            !.env = <<b>>,
                            !.ret = IF g[1] # 0 THEN -ENODEV ELSE 0]
              /\ attr' = [attr EXCEPT ![b] = g[2]]
  /\ UNCHANGED <<ec_device, ecRefs, drv, attaches, detaches, ledCount,
                 hookCount, ecMax, ecMin, written>>

framework_laptop_battery_remove(b) ==
  /\ last' = [NoCall EXCEPT !.op = "framework_laptop_battery_remove",
                !.env = <<b>>, !.ret = 0]
  /\ attr' = [attr EXCEPT ![b] = 0]
  /\ UNCHANGED <<ec_device, ecRefs, drv, attaches, detaches, ledCount,
                 hookCount, ecMax, ecMin, written>>

(* ---------------------------------------------------------------------- *)
(* ACPI driver add / remove                                                 *)
(* ---------------------------------------------------------------------- *)

\* dmi: dmi_check_system matched; found: bus_find_device_by_name found the EC;
\* alloc: devm_kzalloc succeeded; ledreg: devm_led_classdev_register succeeded
\* variant: battery_hook_register is called first, before any check
framework_add_hook_first(dmi, found, alloc, ledreg) ==
  LET rec == [NoCall EXCEPT !.op = "framework_add",
                !.env = <<dmi, found, alloc, ledreg>>]
  IN  /\ attaches' = attaches + 1
      /\ UNCHANGED <<detaches, attr, ecMax, ecMin, written>>
      /\ IF ~dmi
         THEN /\ last' = [rec EXCEPT !.ret = -ENODEV]
              /\ hookCount' = hookCount + 1
              /\ UNCHANGED <<ec_device, ecRefs, drv, ledCount>>
         ELSE IF ~found
         THEN /\ ec_device' = "NULL"
              /\ last' = [rec EXCEPT !.ret = -EINVAL]
              /\ hookCount' = hookCount + 1
              /\ UNCHANGED <<ecRefs, drv, ledCount>>
         ELSE IF ~alloc \/ ~ledreg
         THEN /\ ec_device' = "ec"
              /\ ecRefs' = ecRefs + 1
              /\ last' = [rec EXCEPT !.ret = -ENOMEM]
              /\ hookCount' = hookCount + 1
              /\ UNCHANGED <<drv, ledCount>>
         ELSE /\ ec_device' = "ec"
              /\ ecRefs' = ecRefs + 1
              /\ ledCount' = ledCount + 1
              /\ hookCount' = hookCount + 1
              /\ drv' = "Attached"
              /\ last' = [rec EXCEPT !.ret = 0]

framework_add(dmi, found, alloc, ledreg) ==
  LET rec == [NoCall EXCEPT !.op = "framework_add",
                !.env = <<dmi, found, alloc, ledreg>>]
  IN  /\ attaches' = attaches + 1
      /\ UNCHANGED <<detaches, attr, ecMax, ecMin, written>>
      /\ IF ~dmi
         THEN /\ last' = [rec EXCEPT !.ret = -ENODEV]
              /\ UNCHANGED <<ec_device, ecRefs, drv, ledCount, hookCount>>
         ELSE IF ~found
         THEN /\ ec_device' = "NULL"
              /\ last' = [rec EXCEPT !.ret = -EINVAL]
              /\ UNCHANGED <<ecRefs, drv, ledCount, hookCount>>
         ELSE IF ~alloc \/ ~ledreg
         THEN /\ ec_device' = "ec"
              /\ ecRefs' = ecRefs + 1
              /\ last' = [rec EXCEPT !.ret = -ENOMEM]
              /\ UNCHANGED <<drv, ledCount, hookCount>>
         ELSE /\ ec_device' = "ec"
              /\ ecRefs' = ecRefs + 1
              /\ ledCount' = ledCount + 1
              /\ hookCount' = hookCount + 1
              /\ drv' = "Attached"
              /\ last' = [rec EXCEPT !.ret = 0]

\* variant: framework_remove without battery_hook_unregister
remove_keep_hook ==
  /\ hookCount' = hookCount
  /\ attr' = [b \in Batteries |-> 0]
  /\ drv' = "Unhooked"
  /\ last' = [NoCall EXCEPT !.op = "battery_hook_unregister"]
  /\ UNCHANGED <<ec_device, ecRefs, attaches, detaches, ledCount, ecMax,
                 ecMin, written>>

\* variant: put_device is called before battery_hook_unregister
remove_put_first ==
  /\ ecRefs' = ecRefs - 1
  /\ drv' = "Unhooked"
  /\ last' = [NoCall EXCEPT !.op = "battery_hook_unregister"]
  /\ UNCHANGED <<ec_device, attaches, detaches, ledCount, hookCount, attr,
                 ecMax, ecMin, written>>

\* framework_remove, first statement: battery_hook_unregister, which calls
\* remove_battery for every battery
remove_unregister_hook ==
  /\ hookCount' = hookCount - 1
  /\ attr' = [b \in Batteries |-> 0]
  /\ drv' = "Unhooked"
  /\ last' = [NoCall EXCEPT !.op = "battery_hook_unregister"]
  /\ UNCHANGED <<ec_device, ecRefs, attaches, detaches, ledCount, ecMax,
                 ecMin, written>>

\* framework_remove, second statement: put_device(ec_device), then return
remove_put_device ==
  /\ ecRefs' = ecRefs - 1
  /\ drv' = "Removed"
  /\ last' = [NoCall EXCEPT !.op = "framework_remove"]
  /\ UNCHANGED <<ec_device, attaches, detaches, ledCount, hookCount, attr,
                 ecMax, ecMin, written>>

\* after remove returns the driver core releases the device-managed
\* resources: the LED class device registered with devm_led_classdev_register
devres_release ==
  /\ ledCount' = ledCount - 1
  /\ drv' = "Detached"
  /\ detaches' = detaches + 1
  /\ last' = [NoCall EXCEPT !.op = "devres_release"]
  /\ UNCHANGED <<ec_device, ecRefs, attaches, hookCount, attr, ecMax, ecMin,
                 written>>

(* ---------------------------------------------------------------------- *)
(* Inputs                                                                   *)
(* ---------------------------------------------------------------------- *)

\* buffers written to the attribute: in-range numbers, and the edges
WriteInputs ==
  {Digits(p) : p \in 0 .. MaxPct} \cup
  { Digits(LimitMax), Digits(LimitMax + 1), Digits(256),
    <<2, 1, 4, 7, 4, 8, 3, 6, 4, 7>>,
    <<2, 1, 4, 7, 4, 8, 3, 6, 4, 8>>,
    <<4, 2, 9, 4, 9, 6, 7, 2, 9, 5>>,
    <<4, 2, 9, 4, 9, 6, 7, 2, 9, 6>>,
    <<>>, <<NONDIGIT>>, <<5, 0, NL>>, <<PLUS, 7>> }

\* every in-range number
PctInputs == {Digits(p) : p \in 0 .. LimitMax}

\* brightness values the LED core passes (0 .. max_brightness)
Brightness == {0, 50, 100}

\* keyboard backlight states the EC reports: <<enabled, percent>>
KbReplies == {<<e, p>> : e \in {0, 1}, p \in {0, 77, 100}}

(* ---------------------------------------------------------------------- *)
(* Specification: the driver bound to its ACPI device                       *)
(* ---------------------------------------------------------------------- *)

Init ==
  /\ ec_device = "NULL"
  /\ ecRefs = 0
  /\ drv = "Detached"
  /\ attaches = 0
  /\ detaches = 0
  /\ ledCount = 0
  /\ hookCount = 0
  /\ attr = [b \in Batteries |-> 0]
  /\ ecMax = LimitMax
  /\ ecMin = 0
  /\ written = <<>>
  /\ last = NoCall

Attach ==
  /\ drv = "Detached"
  /\ attaches < MaxAttach
  /\ \E dmi, found, alloc, ledreg \in BOOLEAN : framework_add(dmi, found, alloc, ledreg)

DetachHook == drv = "Attached" /\ remove_unregister_hook

DetachPut == drv = "Unhooked" /\ remove_put_device

DetachDevres == drv = "Removed" /\ devres_release

BatteryAdd ==
  /\ hookCount > 0
  /\ \E b \in Batteries, ok \in BOOLEAN : framework_laptop_battery_add(b, ok)

BatteryRemove ==
  /\ hookCount > 0
  /\ \E b \in Batteries : framework_laptop_battery_remove(b)

AttrShow ==
  /\ \E b \in Batteries : attr[b] > 0
  /\ \E st \in XferStatus(2) : battery_get_threshold(st)

AttrStore ==
  /\ \E b \in Batteries : attr[b] > 0
  /\ \E buf \in WriteInputs, st \in XferStatus(2) : battery_set_threshold(buf, st)

LedGet ==
  /\ ledCount > 0
  /\ \E reply \in KbReplies, st \in XferStatus(2) : kb_led_get(reply, st)

LedSet ==
  /\ ledCount > 0
  /\ \E value \in Brightness, st \in XferStatus(0) : kb_led_set(value, st)

Next ==
  \/ Attach
  \/ DetachHook
  \/ DetachPut
  \/ DetachDevres
  \/ BatteryAdd
  \/ BatteryRemove
  \/ AttrShow
  \/ AttrStore
  \/ LedGet
  \/ LedSet

Spec == Init /\ [][Next]_vars

\* framework_remove is straight-line code and the release of device-managed
\* resources follows it unconditionally: once started, each step is taken
FairSpec == Spec /\ WF_vars(DetachPut) /\ WF_vars(DetachDevres)

(* ---------------------------------------------------------------------- *)
(* Specification: the feature operations called directly, handle resolved   *)
(* or not                                                                   *)
(* ---------------------------------------------------------------------- *)

InitOps ==
  /\ ec_device \in {"NULL", "ec"}
  /\ ecRefs = IF ec_device = "ec" THEN 1 ELSE 0
  /\ drv = "Detached"
  /\ attaches = 0
  /\ detaches = 0
  /\ ledCount = 0
  /\ hookCount = 0
  /\ attr = [b \in Batteries |-> 0]
  /\ ecMax = LimitMax
  /\ ecMin = 0
  /\ written = <<>>
  /\ last = NoCall

CallGetThreshold == \E st \in XferStatus(2) : battery_get_threshold(st)

CallSetThreshold ==
  \E buf \in WriteInputs, st \in XferStatus(2) : battery_set_threshold(buf, st)

CallGetBrightness ==
  \E reply \in KbReplies, st \in XferStatus(2) : kb_led_get(reply, st)

CallSetBrightness ==
  \E value \in Brightness, st \in XferStatus(0) : kb_led_set(value, st)

NextOps ==
  \/ CallGetThreshold
  \/ CallSetThreshold
  \/ CallGetBrightness
  \/ CallSetBrightness

OpsSpec == InitOps /\ [][NextOps]_vars

(* ---------------------------------------------------------------------- *)
(* Specification: writes of every in-range percentage to an EC that         *)
(* completes each write, and reads with any outcome; handle resolved        *)
(* ---------------------------------------------------------------------- *)

InitRoundTrip == InitOps /\ ec_device = "ec"

WritePct == \E buf \in PctInputs : battery_set_threshold(buf, 2)

ReadPct == \E st \in XferStatus(2) : battery_get_threshold(st)

NextRoundTrip ==
  \/ WritePct
  \/ ReadPct

RoundTripSpec == InitRoundTrip /\ [][NextRoundTrip]_vars

(* ---------------------------------------------------------------------- *)
(* Properties                                                               *)
(* ---------------------------------------------------------------------- *)

\* the word a write parsed to is above 100, read as the unsigned number it is
WroteAbove100 ==
  /\ last.op = "battery_set_threshold"
  /\ last.perr = 0
  /\ (last.word[1] > 0 \/ last.word[2] > LimitMax)

\* C1: every write that parses as an unsigned 32-bit decimal above 100 fails
\* with -EINVAL and makes no transfer, so no truncated maximum is ever sent.
C1_AboveRangeRejected ==
  WroteAbove100 => (last.ret = -EINVAL /\ last.xfers = 0)

\* the text "%d\n" of a percentage, digit by digit
PctLine(p) ==
  (IF p >= 100 THEN <<p \div 100>> ELSE <<>>) \o
  (IF p >= 10 THEN <<(p \div 10) % 10>> ELSE <<>>) \o
  <<p % 10, NL>>

\* C2: with the handle resolved and an EC that stores what SET_LIMIT carries,
\* a read that follows the successful write of p in 0..100 returns p.
C2_RoundTrip ==
  (/\ last.op = "battery_get_threshold"
   /\ last.xfers = 1
   /\ last.status >= 1
   /\ written # <<>>)
  => /\ \E p \in 0 .. LimitMax : written = Digits(p) /\ last.out = PctLine(p)
     /\ last.ret = Len(last.out)

C2_Witness ==
  /\ last.op = "battery_get_threshold"
  /\ last.status = 2
  /\ written = <<1, 0, 0>>
  /\ last.out = <<1, 0, 0, NL>>

\* C3: kb_led_get returns 0 whenever the response says enabled = 0, whatever
\* its percent; with enabled set and the whole response received it returns
\* the response's percent.
C3_DisabledReadsZero ==
  (last.op = "kb_led_get" /\ last.xfers = 1 /\ last.status >= 1)
  => /\ last.resp[1] = 0 => last.ret = 0
     /\ (last.resp[1] # 0 /\ last.status = 2) => last.ret = last.resp[2]

C3_Witness ==
  /\ last.op = "kb_led_get"
  /\ last.status = 2
  /\ last.resp = <<0, 77>>
  /\ last.ret = 0

\* C4: kb_led_get never returns a negative value; with the handle absent or
\* the transfer failed it returns exactly 0.
C4_GetNeverFails ==
  last.op = "kb_led_get"
  => /\ last.ret >= 0
     /\ (last.xfers = 0 \/ last.status < 0) => last.ret = 0

C4_Witness ==
  /\ last.op = "kb_led_get"
  /\ ec_device = "ec"
  /\ last.xfers = 1
  /\ last.status < 0
  /\ last.ret = 0

\* C5: kb_led_set returns -EIO when the transfer fails, and returns 0 only
\* when a transfer was made and its status was not negative.
C5_SetPropagatesFailure ==
  last.op = "kb_led_set"
  => /\ (last.xfers = 1 /\ last.status < 0) => last.ret = -EIO
     /\ last.ret = 0 => (last.xfers = 1 /\ last.status >= 0)
     /\ last.ret \in {0, -EIO}

C5_Witness ==
  /\ last.op = "kb_led_set"
  /\ last.arg = 50
  /\ last.xfers = 1
  /\ last.status < 0
  /\ last.ret = -EIO

NothingRegistered == drv = "Detached" /\ ledCount = 0 /\ hookCount = 0

\* C6: framework_add that fails the identity check returns -ENODEV, one that
\* does not find the EC device returns -EINVAL, and in both cases neither the
\* LED device nor the battery hook is registered and the driver is detached.
C6_EarlyFailuresRegisterNothing ==
  last.op = "framework_add"
  => /\ ~last.env[1] => (last.ret = -ENODEV /\ NothingRegistered)
     /\ (last.env[1] /\ ~last.env[2]) => (last.ret = -EINVAL /\ NothingRegistered)

C6_Witness ==
  /\ last.op = "framework_add"
  /\ last.env[1]
  /\ ~last.env[2]
  /\ detaches >= 1
  /\ last.ret = -EINVAL

\* C7: after every completed detach (hook unregistered, reference put,
\* device-managed resources released), however many attach/detach cycles
\* came before, no LED device and no battery hook is registered.
C7_DetachLeavesNothing ==
  (drv = "Detached" /\ detaches >= 1) => (ledCount = 0 /\ hookCount = 0)

C7_Witness ==
  /\ last.op = "devres_release"
  /\ detaches >= 2
  /\ drv = "Detached"

\* C8: framework_add that fails after the EC device was found (allocation or
\* LED registration failure) returns an error with no LED device and no
\* battery hook registered and the driver detached.
C8_LateFailureLeavesNothing ==
  (/\ last.op = "framework_add"
   /\ last.env[1]
   /\ last.env[2]
   /\ (~last.env[3] \/ ~last.env[4]))
  => (last.ret < 0 /\ NothingRegistered)

C8_Witness ==
  /\ last.op = "framework_add"
  /\ last.env = <<TRUE, TRUE, TRUE, FALSE>>
  /\ last.ret < 0
  /\ ec_device = "ec"

\* a call that uses the transport: a read, a write of a value in 0..100, or
\* a brightness set
UsesTransport ==
  \/ last.op = "battery_get_threshold"
  \/ last.op = "kb_led_set"
  \/ /\ last.op = "battery_set_threshold"
     /\ last.perr = 0
     /\ last.word[1] = 0
     /\ last.word[2] <= LimitMax

\* C9: with the handle absent, get_threshold, set_threshold of a valid value
\* and set_brightness each fail without a transfer, with an error that is not
\* the transfer-failure error -EIO.
C9_AbsentHandleDistinctError ==
  (ec_device = "NULL" /\ UsesTransport)
  => (last.ret < 0 /\ last.ret # -EIO /\ last.xfers = 0)

\* C10: a read whose transfer reports success with fewer bytes than the
\* two-byte response returns an error, never a percentage.
C10_ShortResponseIsError ==
  (/\ last.op = "battery_get_threshold"
   /\ last.xfers = 1
   /\ last.status >= 0
   /\ last.status < 2)
  => (last.ret < 0 /\ last.out = <<>>)

\* C11: every read that succeeds yields the text of a value in 0..100,
\* whatever byte the EC returns as max_percentage.
C11_ReadInRange ==
  (last.op = "battery_get_threshold" /\ last.ret >= 0)
  => \E p \in 0 .. LimitMax : last.out = PctLine(p)

\* C12: framework_laptop_battery_add for a battery not named BAT1 returns an
\* error and the charge-limit group is not installed on that battery.
C12_OtherBatteryRejected ==
  (last.op = "framework_laptop_battery_add" /\ last.env[1] # "BAT1")
  => (last.ret < 0 /\ attr[last.env[1]] = 0)

C12_Witness ==
  /\ last.op = "framework_laptop_battery_add"
  /\ last.env = <<"BAT0">>
  /\ last.ret = -ENODEV
  /\ attr["BAT0"] = 0
  /\ attr["BAT1"] = 1

\* the last call was framework_laptop_battery_add for BAT1 and it installed
\* the group
AddedExpected ==
  /\ last.op = "framework_laptop_battery_add"
  /\ last.env = <<"BAT1">>
  /\ last.ret = 0
  /\ attr["BAT1"] = 1

\* C13: a second framework_laptop_battery_add for BAT1 right after the first,
\* with no remove in between, leaves the group installed exactly once.
C13_DoubleAddInstalledOnce ==
  [][(/\ AddedExpected
      /\ last'.op = "framework_laptop_battery_add"
      /\ last'.env = <<"BAT1">>)
     => attr'["BAT1"] = 1]_vars

\* the LED callbacks or the attribute's show/store can be invoked
Invocable == ledCount > 0 \/ \E b \in Batteries : attr[b] > 0

\* C14: whenever the LED device or the charge-limit attribute can still be
\* invoked, the reference on the EC device is still held.
C14_InvocableHoldsReference == Invocable => ecRefs > 0

\* C15: references on the EC device are balanced: whenever the driver is
\* detached, none is held.
C15_DetachedHoldsNoReference == drv = "Detached" => ecRefs = 0

\* C16: once a detach has completed the process-wide handle is absent, so
\* later calls take the device-not-ready path.
C16_HandleClearedAtDetach ==
  (drv = "Detached" /\ detaches >= 1) => ec_device = "NULL"

FeatureOps ==
  {"battery_get_threshold", "battery_set_threshold", "kb_led_get", "kb_led_set"}

\* the arguments of the last call are valid: only a write has any to check
ValidArgs ==
  last.op = "battery_set_threshold"
  => (last.perr = 0 /\ last.word[1] = 0 /\ last.word[2] <= LimitMax)

\* C17: a feature operation makes at most one transfer per call, and exactly
\* one when the handle is resolved and the arguments are valid; a failed
\* transfer is not sent again.
C17_OneTransferPerCall ==
  last.op \in FeatureOps
  => /\ last.xfers <= 1
     /\ (ec_device = "ec" /\ ValidArgs) => last.xfers = 1

C17_Witness ==
  /\ last.op = "battery_set_threshold"
  /\ ec_device = "ec"
  /\ last.word = <<0, LimitMax>>
  /\ last.status < 0
  /\ last.xfers = 1
  /\ last.ret = -EIO

\* the request of the last call, when one was sent to the charge-limit command
SentChargeLimit ==
  last.xfers = 1 /\ last.req # <<>> /\ last.req[1] = EC_CMD_CHARGE_LIMIT_CONTROL

\* C18: a read sends GET_LIMIT alone with both percentages 0 and leaves the
\* EC's stored limit as it was; a write of v sends SET_LIMIT alone with
\* max_percentage = v and min_percentage = 0; no request carries DISABLE or
\* OVERRIDE.
C18_RequestContents ==
  /\ [](SentChargeLimit =>
          /\ ~HasBit(last.req[2], CHG_LIMIT_DISABLE)
          /\ ~HasBit(last.req[2], CHG_LIMIT_OVERRIDE)
          /\ last.op = "battery_get_threshold"
             => last.req = <<EC_CMD_CHARGE_LIMIT_CONTROL, CHG_LIMIT_GET_LIMIT, 0, 0>>
          /\ last.op = "battery_set_threshold"
             => /\ last.req[2] = CHG_LIMIT_SET_LIMIT
                /\ last.word = <<0, last.req[3]>>
                /\ last.req[4] = 0)
  /\ [][last'.op = "battery_get_threshold" => (ecMax' = ecMax /\ ecMin' = ecMin)]_vars

\* C19: framework_remove, once started, completes; the EC reference is put
\* only after the battery hook is unregistered; and it reports no failure.
C19_RemoveOrderedAndCompletes ==
  /\ [][ecRefs' < ecRefs => (drv = "Unhooked" /\ hookCount = 0 /\ hookCount' = 0)]_vars
  /\ [](last.op = "framework_remove" => (last.ret = 0 /\ drv = "Removed"))
  /\ (drv = "Unhooked") ~> (drv = "Removed")
  /\ (drv = "Removed") ~> (drv = "Detached")

C19_Witness ==
  /\ last.op = "framework_remove"
  /\ drv = "Removed"
  /\ hookCount = 0
  /\ ecRefs = 0
  /\ ec_device = "ec"

====
